---- MODULE Spec2Model ----
(***************************************************************************)
(* Model of histocartography's graph construction and explanation driver:  *)
(*   - KNNGraphBuilder (graph_building/knn_graph_builder.py)               *)
(*   - the explanation script main() (experiments/histo-graph/             *)
(*     run_explainer.py)                                                   *)
(* Coordinates are fixed-point numbers: the integer v stands for v/Scale.  *)
(* Rationals are pairs <<num, den>> with den > 0.                          *)
(***************************************************************************)
EXTENDS Integers, Sequences, FiniteSets, TLC

\* ------------------------------------------------------------------ bounds
MaxObjects == 3      \* longest arbitrary object list handed to the builder
MaxLine == 5         \* longest list of objects on a unit-spaced line
Scale == 2           \* fixed-point resolution of a coordinate (v stands for v/Scale)
MaxEpochs == 2       \* largest args.epochs
MaxInstances == 2    \* most instances in the train loader
NumNodes == 2        \* nodes of the cell graph of an instance

\* ------------------------------------------------------------- input sets
\* centroids (fixed-point): (0,0), (1,0) and (1 + 1/Scale, 1), whose first
\* coordinate is no integer
Centroids == { <<0, 0>>, <<Scale, 0>>, <<Scale + 1, Scale>> }
\* class ids 0 and 1 (fixed-point)
Labels == {0, Scale}
Objects == [centroid : Centroids, label : Labels]

SeqsUpTo(S, n) == UNION { [1..k -> S] : k \in 0..n }

\* k objects on a line at unit spacing, starting at o, stepping by dir
LineOf(o, dir, k) ==
    [i \in 1..k |-> [centroid |-> << o[1] + (i - 1) * Scale * dir[1],
                                     o[2] + (i - 1) * Scale * dir[2] >>,
                     label |-> 0]]
LineOrigins == { <<0, 0>>, <<1, 0>>, <<Scale, Scale>> }
LineDirs == { <<1, 0>>, <<0, 1>>, <<-1, 0>>, <<0, -1>> }
LineLists == { LineOf(o, d, k) : o \in LineOrigins, d \in LineDirs, k \in 2..MaxLine }

ObjectLists == SeqsUpTo(Objects, MaxObjects) \cup LineLists

\* edge_threshold values: 0, 1/5, 1/4, 1/2, 1
Thresholds == { <<0, 1>>, <<1, 5>>, <<1, 4>>, <<1, 2>>, <<1, 1>> }
ConfigKeys == {"edge_threshold", "edge_encoding"}
\* a configuration: a mapping that may lack either key
Configs ==
    { [edge_threshold |-> t, edge_encoding |-> e] : t \in Thresholds, e \in BOOLEAN }
    \cup { [edge_threshold |-> t] : t \in Thresholds }
    \cup { [edge_encoding |-> e] : e \in BOOLEAN }
    \cup { [k \in {} |-> TRUE] }

\* ------------------------------------------------------------------ state
VARIABLES
    builder,     \* the KNNGraphBuilder instance: NoBuilder or [config, cuda]
    objects,     \* the object list of the last __call__
    result       \* what the last __call__ produced: a graph or an exception

bvars == <<builder, objects, result>>

VARIABLES
    pc,                \* position of main() of the explanation script
    args,              \* parsed arguments: epochs, learning_rate
    num_instances,     \* length of dataloaders['train']
    config_explainer,  \* the mapping config['explainer'] (one mutable object,
                       \* also held by the explainer as model_params)
    loaded_explainer,  \* config['explainer'] as read_params loaded it
    explainer,         \* the SingleInstanceExplainer: its train_params
    instance,          \* number of the instance the loop is at
    epochs_done,       \* iterations of the running mask optimization
    explained,         \* number of explain() calls that have returned
    out,               \* adj, feats returned by explain(), centroids of the graph
    explanation,       \* post-processed explanation of the instance
    files,             \* output files written so far
    error              \* the exception that ended main(), if any

dvars == <<pc, args, num_instances, config_explainer, loaded_explainer, explainer,
           instance, epochs_done, explained, out, explanation, files, error>>

NoBuilder == [constructed |-> FALSE]
NoResult == [kind |-> "none", error |-> "", nodes |-> 0, centroid |-> <<>>,
             label |-> <<>>, edges |-> <<>>]

\* ------------------------------------------------- numeric utilities
\* torch.LongTensor on a number: the 64-bit integer conversion drops the
\* fractional part (toward zero); the result is again in fixed-point form.
LongTensor(v) ==
    IF v >= 0 THEN (v \div Scale) * Scale ELSE -(((-v) \div Scale) * Scale)

\* Euclidean distance of two centroids, represented by its square (fixed-point
\* squared): the square root is monotone and is never needed in exact form.
compute_l2_distance(a, b) ==
    (a[1] - b[1]) * (a[1] - b[1]) + (a[2] - b[2]) * (a[2] - b[2])

\* A positive, strictly decreasing kernel of the distance: 1 / (1 + d^2).
compute_edge_weight(dist) == << Scale * Scale, Scale * Scale + dist >>

\* p > q on rationals
RatGreaterOrEqual(p, q) == p[1] * q[2] >= q[1] * p[2]
RatGreater(p, q) == p[1] * q[2] > q[1] * p[2]
RatEqual(p, q) == p[1] * q[2] = q[1] * p[2]

\* ------------------------------------------------- KNNGraphBuilder
\* itertools.combinations(range(n), 2): pairs i < j of 0..n-1, lexicographic
RECURSIVE CombinationsFrom(_, _, _)
CombinationsFrom(i, j, n) ==
    IF i >= n - 1 THEN <<>>
    ELSE IF j >= n THEN CombinationsFrom(i + 1, i + 2, n)
    ELSE << <<i, j>> >> \o CombinationsFrom(i, j + 1, n)

RECURSIVE ReplacementFrom(_, _, _)
ReplacementFrom(i, j, n) ==
    IF i >= n THEN <<>>
    ELSE IF j >= n THEN ReplacementFrom(i + 1, i + 1, n)
    ELSE << <<i, j>> >> \o ReplacementFrom(i, j + 1, n)
CombinationsWithReplacement(n) == ReplacementFrom(0, 0, n)
combinations(n) == CombinationsFrom(0, 1, n)

\* the test of line 74
AtLeastThreshold(edge_weight, threshold) == RatGreaterOrEqual(edge_weight, threshold)
ExceedsThreshold(edge_weight, threshold) == RatGreater(edge_weight, threshold)

\* what lines 75-76 append for a retained pair
OneDirection(pair) == << pair >>
BothDirections(pair) == << pair, << pair[2], pair[1] >> >>

\* the loop of lines 71-76; the lookup of config['edge_threshold'] raises
\* KeyError the first time a pair is examined when the key is absent
RECURSIVE TopologyLoop(_, _, _, _)
TopologyLoop(pairs, centroid, config, edge_list) ==
    IF pairs = <<>> THEN [ok |-> TRUE, edge_list |-> edge_list]
    ELSE LET pair == Head(pairs)
             dist == compute_l2_distance(centroid[pair[1] + 1], centroid[pair[2] + 1])
             edge_weight == compute_edge_weight(dist)
         IN  IF "edge_threshold" \notin DOMAIN config
             THEN [ok |-> FALSE, edge_list |-> edge_list]
             ELSE IF ExceedsThreshold(edge_weight, config["edge_threshold"])
                  THEN TopologyLoop(Tail(pairs), centroid, config,
                                    edge_list \o BothDirections(pair))
                  ELSE TopologyLoop(Tail(pairs), centroid, config, edge_list)

\* the topology of the centroids as stored in the node attributes
TopologyOfStoredCentroids(objs, config) ==
    LET num_objects == Len(objs)
        centroid == [i \in 1..num_objects |-> << LongTensor(objs[i].centroid[1]),
                                                 LongTensor(objs[i].centroid[2]) >>]
    IN  TopologyLoop(combinations(num_objects), centroid, config, <<>>)
\* lines 68-77; graph.add_edges(edge_list) adds the listed edges in order
_build_topology(objs, config) ==
    LET num_objects == Len(objs)
        centroid == [i \in 1..num_objects |-> objs[i].centroid]
    IN  TopologyLoop(combinations(num_objects), centroid, config, <<>>)

\* lines 55-56: node attributes as LongTensors, in input order
FeaturesReversed(objs) ==
    [centroid |-> [i \in 1..Len(objs) |->
                     << LongTensor(objs[Len(objs) + 1 - i].centroid[1]),
                        LongTensor(objs[Len(objs) + 1 - i].centroid[2]) >>],
     label |-> [i \in 1..Len(objs) |-> LongTensor(objs[Len(objs) + 1 - i].label)]]
_set_node_features(objs) ==
    [centroid |-> [i \in 1..Len(objs) |->
                     << LongTensor(objs[i].centroid[1]),
                        LongTensor(objs[i].centroid[2]) >>],
     label |-> [i \in 1..Len(objs) |-> LongTensor(objs[i].label)]]

\* self.config[key] with key absent: no graph is returned
KeyError(key) ==
    [kind |-> "error", error |-> "KeyError: " \o key, nodes |-> 0, centroid |-> <<>>,
     label |-> <<>>, edges |-> <<>>]

\* __call__ (lines 42-49): nodes, node features, topology, edge_encoding lookup
BuildGraph(config, objs) ==
    LET num_objects == Len(objs)
        ndata == _set_node_features(objs)
        topo == _build_topology(objs, config)
    IN  IF ~topo.ok THEN KeyError("edge_threshold")
        ELSE IF "edge_encoding" \notin DOMAIN config THEN KeyError("edge_encoding")
        ELSE [kind |-> "graph", error |-> "", nodes |-> num_objects,
              centroid |-> ndata.centroid, label |-> ndata.label,
              edges |-> topo.edge_list]

\* __init__ (lines 15-30): stores config and cuda; no key is looked up
Construct(config, cuda) ==
    /\ ~builder.constructed
    /\ builder' = [constructed |-> TRUE, config |-> config, cuda |-> cuda]
    /\ UNCHANGED <<objects, result>>
    /\ UNCHANGED dvars

\* one __call__ of the constructed builder; its outcome is held until the
\* caller drops it
Call(objs) ==
    /\ builder.constructed
    /\ result = NoResult
    /\ objects' = objs
    /\ result' = BuildGraph(builder.config, objs)
    /\ UNCHANGED builder
    /\ UNCHANGED dvars

\* the caller is done with the outcome; the builder is ready for the next call
Release ==
    /\ result # NoResult
    /\ objects' = <<>>
    /\ result' = NoResult
    /\ UNCHANGED builder
    /\ UNCHANGED dvars

BuilderInit ==
    /\ builder = NoBuilder
    /\ objects = <<>>
    /\ result = NoResult

BuilderNext ==
    \/ \E config \in Configs, cuda \in BOOLEAN : Construct(config, cuda)
    \/ \E objs \in ObjectLists : Call(objs)
    \/ Release


\* ------------------------------------------------- explanation script
\* args.epochs, args.learning_rate
Epochs == 0..MaxEpochs
LearningRates == {1}
\* config['explainer'] as loaded: adj_thresh and mask hyperparameters
AdjThresholds == {0, 5}
LoadedConfigs == { [adj_thresh |-> t] : t \in AdjThresholds }

\* rows of the masked feature matrix
FeatRows == { <<0, 0>>, <<1, 0>>, <<1, -1>>, <<0, 2>> }
\* masked adjacency matrices: position-tagged entries, or all ones
AdjMasks ==
    { [i \in 1..NumNodes |-> [j \in 1..NumNodes |-> i * (NumNodes + 1) + j]],
      [i \in 1..NumNodes |-> [j \in 1..NumNodes |-> 1]] }
\* data[0].ndata['centroid'] of the instance's cell graph
GraphCentroids == [i \in 1..NumNodes |-> <<i, 2 * i>>]

NoOut == [adj |-> <<>>, feats |-> <<>>, centroids |-> <<>>]
NoExplanation == [node_idx |-> <<>>, adj |-> <<>>, feats |-> <<>>, centroids |-> <<>>,
                  number_of_nodes |-> 0, edges |-> {}]

\* lines 105-111: the training parameters handed to the explainer
TrainParamsOffByOne(a) ==
    [num_epochs |-> a.epochs + 1, lr |-> a.learning_rate, weight_decay |-> <<5, 10000>>]
TrainParams(a) ==
    [num_epochs |-> a.epochs, lr |-> a.learning_rate, weight_decay |-> <<5, 10000>>]

RECURSIVE SumSeq(_)
SumSeq(row) == IF row = <<>> THEN 0 ELSE Head(row) + SumSeq(Tail(row))

\* line 131: node_idx = (feats.sum(dim=-1) != 0.).squeeze()
NodeIdx(feats) == [i \in 1..Len(feats) |-> SumSeq(feats[i]) # 0]

\* the positions a boolean index selects, in increasing order
RECURSIVE SelectedFrom(_, _)
SelectedFrom(node_idx, i) ==
    IF i > Len(node_idx) THEN <<>>
    ELSE (IF node_idx[i] THEN <<i>> ELSE <<>>) \o SelectedFrom(node_idx, i + 1)
Selected(node_idx) == SelectedFrom(node_idx, 1)

\* adj_to_networkx: an edge for every cell of adj above the threshold
adj_to_networkx(adj, feats, threshold, centroids) ==
    [number_of_nodes |-> Len(adj),
     edges |-> { p \in (1..Len(adj)) \X (1..Len(adj)) : adj[p[1]][p[2]] > threshold }]

\* lines 131-140
PostProcessed(o, threshold) ==
    LET node_idx == NodeIdx(o.feats)
        keep == Selected(node_idx)
        rows == [a \in 1..Len(keep) |-> o.adj[keep[a]]]                  \* adj[node_idx, :]
        adj == [a \in 1..Len(keep) |->
                  [b \in 1..Len(keep) |-> rows[a][keep[b]]]]             \* adj[:, node_idx]
        feats == [a \in 1..Len(keep) |-> o.feats[keep[a]]]
        centroids == [a \in 1..Len(keep) |-> o.centroids[keep[a]]]
        graph == adj_to_networkx(adj, feats, threshold, centroids)
    IN  [node_idx |-> node_idx, adj |-> adj, feats |-> feats, centroids |-> centroids,
         number_of_nodes |-> graph.number_of_nodes, edges |-> graph.edges]

Raise(e) ==
    /\ pc' = "failed"
    /\ error' = e

\* lines 105-119: train_params and the explainer
DeclareExplainer ==
    /\ pc = "declare"
    /\ explainer' = [train_params |-> TrainParams(args)]
    /\ pc' = "loop"
    /\ UNCHANGED <<args, num_instances, config_explainer, loaded_explainer, instance,
                   epochs_done, explained, out, explanation, files, error>>
    /\ UNCHANGED bvars

\* line 122: the next (data, label) of the train loader, or the end of main()
NextInstance ==
    /\ pc = "loop"
    /\ IF instance < num_instances
       THEN /\ instance' = instance + 1
            /\ pc' = "explain"
       ELSE /\ pc' = "done"
            /\ UNCHANGED instance
    /\ out' = NoOut
    /\ explanation' = NoExplanation
    /\ UNCHANGED <<args, num_instances, config_explainer, loaded_explainer, explainer,
                   epochs_done, explained, files, error>>
    /\ UNCHANGED bvars

\* explainer.explain (line 126), entry: num_epochs <= 0 is an InvalidConfigError;
\* otherwise the reference forward pass is run and the mask initialised
ExplainBegin ==
    /\ pc = "explain"
    /\ IF explainer.train_params.num_epochs <= 0
       THEN /\ Raise("InvalidConfigError")
            /\ UNCHANGED epochs_done
       ELSE /\ pc' = "optimize"
            /\ epochs_done' = 0
            /\ UNCHANGED error
    /\ UNCHANGED <<args, num_instances, config_explainer, loaded_explainer, explainer,
                   instance, explained, out, explanation, files>>
    /\ UNCHANGED bvars

\* one iteration of the mask optimization
ExplainEpoch ==
    /\ pc = "optimize"
    /\ epochs_done < explainer.train_params.num_epochs
    /\ epochs_done' = epochs_done + 1
    /\ UNCHANGED <<pc, args, num_instances, config_explainer, loaded_explainer,
                   explainer, instance, explained, out, explanation, files, error>>
    /\ UNCHANGED bvars

\* the model raises during a forward pass of explain
ExplainRaises ==
    /\ pc = "optimize"
    /\ Raise("ModelInvocationError")
    /\ UNCHANGED <<args, num_instances, config_explainer, loaded_explainer, explainer,
                   instance, epochs_done, explained, out, explanation, files>>
    /\ UNCHANGED bvars

\* the loop is over: masked adjacency and features are returned
ExplainReturn ==
    /\ pc = "optimize"
    /\ epochs_done >= explainer.train_params.num_epochs
    /\ \E adj \in AdjMasks, feats \in [1..NumNodes -> FeatRows] :
          out' = [adj |-> adj, feats |-> feats, centroids |-> GraphCentroids]
    /\ explained' = explained + 1
    /\ pc' = "post"
    /\ UNCHANGED <<args, num_instances, config_explainer, loaded_explainer, explainer,
                   instance, epochs_done, explanation, files, error>>
    /\ UNCHANGED bvars

\* lines 131-140
PostProcess ==
    /\ pc = "post"
    /\ explanation' = PostProcessed(out, config_explainer.adj_thresh)
    /\ pc' = "show_original"
    /\ UNCHANGED <<args, num_instances, config_explainer, loaded_explainer, explainer,
                   instance, epochs_done, explained, out, files, error>>
    /\ UNCHANGED bvars

\* lines 143-147: the original graph is drawn and saved under args.out_path
VisualizeOriginal ==
    /\ pc = "show_original"
    /\ files' = files \cup { <<instance, "original">> }
    /\ pc' = "show_explanation"
    /\ UNCHANGED <<args, num_instances, config_explainer, loaded_explainer, explainer,
                   instance, epochs_done, explained, out, explanation, error>>
    /\ UNCHANGED bvars

\* lines 150-152: the explanation graph is drawn (no save path is given)
VisualizeExplanation ==
    /\ pc = "show_explanation"
    /\ pc' = "meta"
    /\ UNCHANGED <<args, num_instances, config_explainer, loaded_explainer, explainer,
                   instance, epochs_done, explained, out, explanation, files, error>>
    /\ UNCHANGED bvars

\* a visualizer raises
VisualizeRaises ==
    /\ pc \in {"show_original", "show_explanation"}
    /\ Raise("VisualizationError")
    /\ UNCHANGED <<args, num_instances, config_explainer, loaded_explainer, explainer,
                   instance, epochs_done, explained, out, explanation, files>>
    /\ UNCHANGED bvars

\* lines 158-160: meta_data['config'] IS config['explainer']; two keys are set in it
MetaConfig(cfg, a) ==
    [k \in DOMAIN cfg \cup {"number_of_epochs", "learning_rate"} |->
        IF k = "number_of_epochs" THEN a.epochs
        ELSE IF k = "learning_rate" THEN a.learning_rate
        ELSE cfg[k]]

\* lines 155-177: the metadata is assembled and written as JSON
WriteMetaData ==
    /\ pc = "meta"
    /\ config_explainer' = MetaConfig(config_explainer, args)
    /\ files' = files \cup { <<instance, "json">> }
    /\ pc' = "loop"
    /\ UNCHANGED <<args, num_instances, loaded_explainer, explainer, instance,
                   epochs_done, explained, out, explanation, error>>
    /\ UNCHANGED bvars

\* write_json raises: the metadata was assembled, no file is written
WriteRaises ==
    /\ pc = "meta"
    /\ config_explainer' = MetaConfig(config_explainer, args)
    /\ Raise("WriteError")
    /\ UNCHANGED <<args, num_instances, loaded_explainer, explainer, instance,
                   epochs_done, explained, out, explanation, files>>
    /\ UNCHANGED bvars

DriverIdle ==
    /\ pc = "idle"
    /\ args = [epochs |-> 0, learning_rate |-> 1]
    /\ num_instances = 0
    /\ config_explainer = [adj_thresh |-> 0]
    /\ loaded_explainer = [adj_thresh |-> 0]
    /\ explainer = [train_params |-> <<>>]
    /\ instance = 0
    /\ epochs_done = 0
    /\ explained = 0
    /\ out = NoOut
    /\ explanation = NoExplanation
    /\ files = {}
    /\ error = ""

\* main() after read_params, make_data_loader and the model are in place (line 99)
DriverInit ==
    /\ pc = "declare"
    /\ args \in [epochs : Epochs, learning_rate : LearningRates]
    /\ num_instances \in 0..MaxInstances
    /\ config_explainer \in LoadedConfigs
    /\ loaded_explainer = config_explainer
    /\ explainer = [train_params |-> <<>>]
    /\ instance = 0
    /\ epochs_done = 0
    /\ explained = 0
    /\ out = NoOut
    /\ explanation = NoExplanation
    /\ files = {}
    /\ error = ""

DriverNext ==
    \/ DeclareExplainer
    \/ NextInstance
    \/ ExplainBegin
    \/ ExplainEpoch
    \/ ExplainRaises
    \/ ExplainReturn
    \/ PostProcess
    \/ VisualizeOriginal
    \/ VisualizeExplanation
    \/ VisualizeRaises
    \/ WriteMetaData
    \/ WriteRaises

vars == <<bvars, dvars>>

\* the graph builder, on its own
Init == BuilderInit /\ DriverIdle
Next == BuilderNext
Spec == Init /\ [][Next]_vars

\* the explanation script, on its own
ExplainerInit == DriverInit /\ BuilderInit
ExplainerNext == DriverNext
SpecExplainer == ExplainerInit /\ [][ExplainerNext]_vars

\* ------------------------------------------------- properties of the builder
Built == result.kind = "graph"
NodeIds == 0..(Len(objects) - 1)
EdgeSet == { result.edges[k] : k \in 1..Len(result.edges) }
Centroid(i) == objects[i + 1].centroid
\* the weight of the pair (i, j) of the last object list
PairWeight(i, j) == compute_edge_weight(compute_l2_distance(Centroid(i), Centroid(j)))
Abs(v) == IF v >= 0 THEN v ELSE -v

\* C1: the edge set of a returned graph is symmetric: (i,j) is an edge iff
\* (j,i) is, for all node indices i, j; no pair has exactly one direction.
C1_SymmetricEdges ==
    Built => /\ \A i, j \in NodeIds : (<<i, j>> \in EdgeSet) <=> (<<j, i>> \in EdgeSet)
             /\ \A e \in EdgeSet : << e[2], e[1] >> \in EdgeSet
\* a graph with a connected pair and an unconnected pair
C1_Witness ==
    /\ Built
    /\ \E i, j \in NodeIds : i # j /\ <<i, j>> \in EdgeSet
    /\ \E i, j \in NodeIds : i # j /\ <<i, j>> \notin EdgeSet

\* C2 (as claimed): a graph built from a non-empty list has len(objects)
\* nodes and node i carries centroid and label of objects[i] verbatim.
C2_Verbatim ==
    (Built /\ Len(objects) > 0) =>
        /\ result.nodes = Len(objects)
        /\ \A i \in 1..Len(objects) :
              /\ result.centroid[i] = objects[i].centroid
              /\ result.label[i] = objects[i].label

\* s is v with its fractional part dropped
IsIntegerPartOf(s, v) ==
    /\ s % Scale = 0
    /\ Abs(s) <= Abs(v)
    /\ Abs(v) - Abs(s) < Scale
    /\ (s > 0 => v > 0) /\ (s < 0 => v < 0)
\* C2 (amended): a graph built from a non-empty list has len(objects) nodes in
\* input order; node i carries the 64-bit integer conversion of the centroid
\* and label of objects[i]: the integer part of each value, which is the value
\* itself exactly when the value is an integer.
C2_NodeFeatures ==
    (Built /\ Len(objects) > 0) =>
        /\ result.nodes = Len(objects)
        /\ Len(result.centroid) = Len(objects)
        /\ Len(result.label) = Len(objects)
        /\ \A i \in 1..Len(objects) :
              /\ IsIntegerPartOf(result.centroid[i][1], objects[i].centroid[1])
              /\ IsIntegerPartOf(result.centroid[i][2], objects[i].centroid[2])
              /\ IsIntegerPartOf(result.label[i], objects[i].label)
              /\ \A d \in 1..2 :
                    (objects[i].centroid[d] % Scale = 0)
                        <=> (result.centroid[i][d] = objects[i].centroid[d])
              /\ result.label[i] = objects[i].label
\* a graph over distinct objects, one of them with a centroid that is no integer
C2_Witness ==
    /\ Built
    /\ Len(objects) >= 2
    /\ objects[1] # objects[2]
    /\ \E i \in 1..Len(objects) : objects[i].centroid[1] % Scale # 0
    /\ \E i \in 1..Len(objects) : objects[i].centroid[1] % Scale = 0

\* C3: the directed edges are exactly the pairs (i,j), i # j, whose weight is
\* strictly above edge_threshold, each once; no self-loop.
C3_EdgeSetExact ==
    Built =>
        /\ EdgeSet = { p \in NodeIds \X NodeIds :
                         /\ p[1] # p[2]
                         /\ RatGreater(PairWeight(p[1], p[2]),
                                       builder.config["edge_threshold"]) }
        /\ Len(result.edges) = Cardinality(EdgeSet)
        /\ \A i \in NodeIds : <<i, i>> \notin EdgeSet
\* a graph with a pair above the threshold, a pair at the threshold and a
\* pair below it
C3_Witness ==
    /\ Built
    /\ \E i, j \in NodeIds :
          i # j /\ RatGreater(PairWeight(i, j), builder.config["edge_threshold"])
    /\ \E i, j \in NodeIds :
          i # j /\ RatEqual(PairWeight(i, j), builder.config["edge_threshold"])
    /\ \E i, j \in NodeIds :
          i # j /\ RatGreater(builder.config["edge_threshold"], PairWeight(i, j))

MissingKey == builder.constructed /\ ~(ConfigKeys \subseteq DOMAIN builder.config)
\* C4 (as claimed): with edge_threshold or edge_encoding missing the builder
\* fails with ConfigurationError at construction: no builder exists with a
\* key missing, no call returns a graph, and a failure is a ConfigurationError.
C4_ConfigurationError ==
    /\ ~MissingKey
    /\ (MissingKey /\ result # NoResult) =>
           (result.kind = "error" /\ result.error = "ConfigurationError")

\* C6: with fewer than 2 objects (and edge_encoding configured) the call
\* returns a graph whose nodes are the objects, with node features set, and
\* with no edge.
C6_FewObjects ==
    (/\ result # NoResult
     /\ Len(objects) < 2
     /\ "edge_encoding" \in DOMAIN builder.config) =>
        /\ Built
        /\ result.nodes = Len(objects)
        /\ Len(result.centroid) = Len(objects)
        /\ Len(result.label) = Len(objects)
        /\ result.edges = <<>>
\* a call with one object, and no edge_threshold configured
C6_Witness ==
    /\ Built
    /\ Len(objects) = 1
    /\ "edge_threshold" \notin DOMAIN builder.config

\* the centroids lie on a line at unit spacing, in list order
IsUnitLine(objs) ==
    /\ Len(objs) >= 2
    /\ compute_l2_distance(objs[1].centroid, objs[2].centroid) = Scale * Scale
    /\ \A i \in 1..(Len(objs) - 1) :
          /\ objs[i + 1].centroid[1] - objs[i].centroid[1]
                = objs[2].centroid[1] - objs[1].centroid[1]
          /\ objs[i + 1].centroid[2] - objs[i].centroid[2]
                = objs[2].centroid[2] - objs[1].centroid[2]
\* exactly the pairs at distance 1 have a weight above the threshold
OnlyUnitPairsQualify ==
    /\ "edge_threshold" \in DOMAIN builder.config
    /\ \A i, j \in NodeIds :
          i # j => ( RatGreater(PairWeight(i, j), builder.config["edge_threshold"])
                     <=> compute_l2_distance(Centroid(i), Centroid(j)) = Scale * Scale )
LineCase ==
    /\ result # NoResult
    /\ Len(objects) = 5
    /\ IsUnitLine(objects)
    /\ OnlyUnitPairsQualify
    /\ "edge_encoding" \in DOMAIN builder.config
\* C8: 5 objects on a line at unit spacing, threshold admitting only pairs at
\* distance 1: the graph has 5 nodes and the 8 directed edges (i,i+1), (i+1,i),
\* i = 0..3.
C8_LineScenario ==
    LineCase =>
        /\ Built
        /\ result.nodes = 5
        /\ Len(result.edges) = 8
        /\ EdgeSet = { <<i, i + 1>> : i \in 0..3 } \cup { <<i + 1, i>> : i \in 0..3 }
\* such a line, with a first centroid that is no integer
C8_Witness ==
    /\ LineCase
    /\ Built
    /\ objects[1].centroid[1] % Scale # 0

\* ------------------------------------------------- properties of the script
AfterExplain == {"post", "show_original", "show_explanation", "meta"}

\* C5 (as claimed): when main() has failed, at whatever step and instance, no
\* output file (visualization or JSON) has been written for any instance.
C5_NoPartialOutput == pc = "failed" => files = {}

RECURSIVE NonzeroRowsFrom(_, _)
NonzeroRowsFrom(feats, i) ==
    IF i > Len(feats) THEN <<>>
    ELSE (IF \E k \in 1..Len(feats[i]) : feats[i][k] # 0 THEN <<i>> ELSE <<>>)
         \o NonzeroRowsFrom(feats, i + 1)
\* C9 (as claimed): the explanation keeps exactly the nodes whose masked
\* feature row has a nonzero entry; adjacency rows and columns, feature rows
\* and centroids are restricted to those nodes, in order.
C9_NonzeroRowsKept ==
    pc \in (AfterExplain \ {"post"}) =>
        LET keep == NonzeroRowsFrom(out.feats, 1)
        IN  /\ \A i \in 1..Len(out.feats) :
                  explanation.node_idx[i] <=> (\E a \in 1..Len(keep) : keep[a] = i)
            /\ explanation.feats = [a \in 1..Len(keep) |-> out.feats[keep[a]]]
            /\ explanation.centroids = [a \in 1..Len(keep) |-> out.centroids[keep[a]]]
            /\ explanation.adj = [a \in 1..Len(keep) |->
                                    [b \in 1..Len(keep) |-> out.adj[keep[a]][keep[b]]]]

\* C10 (as claimed): config['explainer'], the mapping the explainer holds as
\* model_params, stays as loaded: explaining and reporting an instance does
\* not change it, so every instance is explained with the loaded mapping.
C10_ExplainerConfigUnchanged == config_explainer = loaded_explainer
====
